---- MODULE Spec2Model ----
(***************************************************************************)
(* A model of libfs (src/libfs/fs.c, the implementation at lines 293-829): *)
(* a FAT-style file system on a virtual block device.  The state is the    *)
(* library's globals (sb, rd, fat_table, file_d, open_files), the block    *)
(* device behind it, and a record of the last call and its return value.   *)
(*                                                                         *)
(* Sizes are scaled down so that the state space is finite and small: the  *)
(* source has BLOCK_SIZE 4096, FS_FILENAME_LEN 16, FS_FILE_MAX_COUNT 128   *)
(* and FS_OPEN_MAX_COUNT 32.  Every definition below is written in terms   *)
(* of these names, never of their values, and the scaled values keep the   *)
(* relations the code relies on: a directory slot may lie beyond the last  *)
(* descriptor (FS_OPEN_MAX_COUNT + 1 < FS_FILE_MAX_COUNT), and every slot  *)
(* index is an index of the fat_table allocation.                          *)
(*                                                                         *)
(* The block device (disk.c) is not among the sources.  The model takes    *)
(* from its interface that one disk is open at a time (block_disk_open     *)
(* fails while a disk is open), that block_disk_count() is -1 with no disk *)
(* open, and that block_read and block_write move one block.               *)
(***************************************************************************)
EXTENDS Integers, Sequences, FiniteSets, TLC

\* ----------------------------------------------------------------- sizes
BLOCK_SIZE == 4
FS_FILENAME_LEN == 2
FS_FILE_MAX_COUNT == 4
FS_OPEN_MAX_COUNT == 2
\* data_blocks_count of the disk the model mounts
DataBlocks == 3
\* fs_open is not called any more once open_files has reached OpenCap
OpenCap == 3
\* the library calls of one behaviour of Spec
MaxCalls == 5

FAT_EOC == 65535

\* uint16_t entries of one FAT block: BLOCK_SIZE/2 (fs.c:375, 399)
EPB == BLOCK_SIZE \div 2
\* the format's fat_blocks_count for DataBlocks data blocks
FatBlocks == (DataBlocks + EPB - 1) \div EPB
RootDirBlock == FatBlocks + 1
DataStart == FatBlocks + 2
TotalBlocks == FatBlocks + 2 + DataBlocks
\* uint16_t entries that malloc gives fat_table (fs.c:373)
FatAlloc == FatBlocks * BLOCK_SIZE

\* contents of fat_table that were not loaded from a FAT block
RAW == 0 - 2      \* bytes of the block after the FAT, read by the load loop's last turn
UNINIT == 0 - 3   \* malloc'ed, never written

Uint8(n) == n % 256

Min(a, b) == IF a < b THEN a ELSE b
Max(a, b) == IF a > b THEN a ELSE b
CeilDiv(a, b) == (a + b - 1) \div b

\* ------------------------------------------------------------ C strings
\* A char array of FS_FILENAME_LEN bytes is a sequence; 0 is the NUL byte.
Chars == 0..2
Zeros == [i \in 1..FS_FILENAME_LEN |-> 0]
Name(c) == [i \in 1..FS_FILENAME_LEN |-> IF i = 1 THEN c ELSE 0]

\* index of the first NUL of a char array; Len+1 when there is none
RECURSIVE NulAt(_, _)
NulAt(arr, i) ==
    IF i > Len(arr) THEN Len(arr) + 1
    ELSE IF arr[i] = 0 THEN i ELSE NulAt(arr, i + 1)

\* the C string an array holds: the bytes before its first NUL
CStr(arr) == SubSeq(arr, 1, NulAt(arr, 1) - 1)
strlen(arr) == Len(CStr(arr))
\* strcmp(a, b) == 0
StrEq(a, b) == CStr(a) = CStr(b)
\* strcpy(dst, src): the bytes of src up to and including its NUL; the rest of dst stays
strcpy(dst, src) ==
    [i \in 1..Len(dst) |-> IF i <= NulAt(src, 1) /\ i <= Len(src) THEN src[i] ELSE dst[i]]

\* the file names the caller passes (its buffers are zero beyond the NUL)
FileNames == {Zeros, Name(1), Name(2)}

\* names of FS_FILENAME_LEN and of FS_FILENAME_LEN + 1 characters, with their NUL
LongName == [i \in 1..(FS_FILENAME_LEN + 1) |-> IF i <= FS_FILENAME_LEN THEN 1 ELSE 0]
TooLongName == [i \in 1..(FS_FILENAME_LEN + 2) |-> IF i <= FS_FILENAME_LEN + 1 THEN 1 ELSE 0]
\* the names the caller passes to fs_create
CreateNames == FileNames \cup {LongName, TooLongName}

\* ------------------------------------------------------------ disk images
Slots == 0..(FS_FILE_MAX_COUNT - 1)
EmptyEntry == [filename |-> Zeros, file_size |-> 0, first_data_block_index |-> 0]
File(c, size, first) ==
    [filename |-> Name(c), file_size |-> size, first_data_block_index |-> first]

\* the FAT region of a disk: FatBlocks blocks of EPB entries
FatOf(links) ==
    [i \in 0..(FatBlocks * EPB - 1) |->
        IF i = 0 THEN FAT_EOC
        ELSE IF i \in DOMAIN links THEN links[i] ELSE 0]

DirOf(files) == [s \in Slots |-> IF s \in DOMAIN files THEN files[s] ELSE EmptyEntry]

\* block 0 of a formatted disk
DiskSB ==
    [signature |-> "ECS150FS",
     virtual_disk_blocks_count |-> TotalBlocks,
     root_directory_block_index |-> RootDirBlock,
     data_block_start_index |-> DataStart,
     data_blocks_count |-> DataBlocks,
     fat_blocks_count |-> FatBlocks]

\* block 0 of a disk of TotalBlocks + 1 blocks whose data region starts one
\* block after the block that follows the root directory
GapSB ==
    [DiskSB EXCEPT !.virtual_disk_blocks_count = TotalBlocks + 1,
                   !.data_block_start_index = DataStart + 1]

\* The disks named "disk": an empty formatted one, formatted ones that the
\* reference tools filled, and an empty one with the superblock GapSB.
Images ==
    { [sb |-> DiskSB, rdir |-> DirOf(<<>>), fat |-> FatOf(<<>>)],
      [sb |-> DiskSB,
       rdir |-> DirOf(0 :> File(1, BLOCK_SIZE + 1, 1)),
       fat  |-> FatOf(1 :> 2 @@ 2 :> FAT_EOC)],
      [sb |-> DiskSB,
       rdir |-> DirOf(0 :> File(2, 2, 2) @@ 3 :> File(1, BLOCK_SIZE, 1)),
       fat  |-> FatOf(1 :> FAT_EOC @@ 2 :> FAT_EOC)],
      [sb |-> DiskSB,
       rdir |-> DirOf(2 :> File(1, BLOCK_SIZE, 1) @@ 3 :> File(2, 2, 2)),
       fat  |-> FatOf(1 :> FAT_EOC @@ 2 :> FAT_EOC)],
      [sb |-> GapSB, rdir |-> DirOf(<<>>), fat |-> FatOf(<<>>)] }

\* The names the caller passes to fs_mount, and what the block device holds
\* under each: "disk" is one of Images, "nosig" is a disk without the signature,
\* "short" is a disk whose superblock counts two blocks more than the disk has.
DiskNames == {"disk", "nosig", "short"}
NoSigSB == [DiskSB EXCEPT !.signature = "ECS150FX"]
ShortSB == [DiskSB EXCEPT !.virtual_disk_blocks_count = TotalBlocks + 2]

\* block_read(0, &sb) on the disk diskname, dsb being block 0 of "disk"
BlockZero(diskname, dsb) ==
    IF diskname = "disk" THEN dsb
    ELSE IF diskname = "nosig" THEN NoSigSB
    ELSE ShortSB

\* block_disk_count() with the disk diskname open
block_disk_count(diskname, dsb) ==
    IF diskname = "short" THEN TotalBlocks
    ELSE BlockZero(diskname, dsb).virtual_disk_blocks_count

\* byte p of data block b: no block_write ever reaches a data block
DataByte(b, p) == b * BLOCK_SIZE + p

\* ------------------------------------------------------------ chains
\* The blocks reached from first by following the links of fat, as a sequence;
\* the walk stops at FAT_EOC, at an index outside fat, or after fuel links.
RECURSIVE ChainFrom(_, _, _)
ChainFrom(fat, b, fuel) ==
    IF b = FAT_EOC \/ b \notin DOMAIN fat \/ fuel = 0 THEN <<>>
    ELSE <<b>> \o ChainFrom(fat, fat[b], fuel - 1)

Range(s) == {s[i] : i \in DOMAIN s}

\* the chain from first ends at FAT_EOC without leaving the data blocks or cycling
ChainEnds(fat, first) ==
    LET c == ChainFrom(fat, first, DataBlocks + 1)
    IN /\ Len(c) <= DataBlocks
       /\ Cardinality(Range(c)) = Len(c)
       /\ \A i \in 1..Len(c) : c[i] \in 1..(DataBlocks - 1)
       /\ IF Len(c) = 0 THEN first = FAT_EOC ELSE fat[c[Len(c)]] = FAT_EOC

Live(dir) == {s \in DOMAIN dir : dir[s].filename[1] # 0}

ChainIntegrity(dir, fat) ==
    /\ \A s \in Live(dir) :
          /\ ChainEnds(fat, dir[s].first_data_block_index)
          /\ Len(ChainFrom(fat, dir[s].first_data_block_index, DataBlocks + 1))
                = CeilDiv(dir[s].file_size, BLOCK_SIZE)
    /\ \A s, t \in Live(dir) :
          s # t =>
             Range(ChainFrom(fat, dir[s].first_data_block_index, DataBlocks + 1))
             \cap Range(ChainFrom(fat, dir[t].first_data_block_index, DataBlocks + 1))
               = {}

UniqueNames(dir) ==
    \A s, t \in Live(dir) : s # t => ~StrEq(dir[s].filename, dir[t].filename)

WellFormed(img) ==
    /\ img.fat[0] = FAT_EOC
    /\ ChainIntegrity(img.rdir, img.fat)
    /\ UniqueNames(img.rdir)
    /\ \A s \in Slots \ Live(img.rdir) : img.rdir[s] = EmptyEntry

\* ------------------------------------------------------------------ state
VARIABLES
    disk_open,   \* the block device has a disk open (block_disk_count() # -1)
    disk_sb,     \* block 0 of the disk named "disk"
    disk_rdir,   \* the root directory block of that disk
    disk_fat,    \* its FAT blocks, entry by entry
    sb,          \* super_block sb
    rd,          \* struct root_dir *rd: the FS_FILE_MAX_COUNT entries it points to
    fat_table,   \* uint16_t *fat_table: the FatAlloc entries it points to
    mem,         \* what rd and fat_table point to: "null", "live" or "freed"
    file_d,      \* fd_t file_d[FS_OPEN_MAX_COUNT], and the memory that follows it
    open_files,  \* uint8_t open_files
    call,        \* the last library call (with what fs_info and fs_ls printed, the
                 \* names given to fs_mount and fs_create, and the arguments of
                 \* an fs_write that returned a byte count)
    ret,         \* what it returned
    buf,         \* the bytes the last fs_read stored in the caller's buffer
    halted,      \* "no", or how the process stopped: "crash" or "hang"
    snap,        \* the directory and FAT in memory when fs_umount was entered
    ncalls       \* the library calls made so far (counted by Spec only)

vars == <<disk_open, disk_sb, disk_rdir, disk_fat, sb, rd, fat_table, mem, file_d,
          open_files, call, ret, buf, halted, snap, ncalls>>

NoSnap == [none |-> TRUE]
NoCall == [op |-> "none"]

\* file_d is zero-initialised static storage (fs.c:331); the model also holds the
\* memory after the array, up to index FS_FILE_MAX_COUNT - 1, which fs_open's
\* file_d[i] and the checks' fd > FS_OPEN_MAX_COUNT let the code reach.
FdSlots == 0..(FS_FILE_MAX_COUNT - 1)
ZeroFd == [filename |-> Zeros, fd_return |-> 0, offset |-> 0]

ZeroSB ==
    [signature |-> "",
     virtual_disk_blocks_count |-> 0,
     root_directory_block_index |-> 0,
     data_block_start_index |-> 0,
     data_blocks_count |-> 0,
     fat_blocks_count |-> 0]

Init ==
    /\ \E img \in Images :
          /\ WellFormed(img)
          /\ disk_sb = img.sb
          /\ disk_rdir = img.rdir
          /\ disk_fat = img.fat
    /\ disk_open = FALSE
    /\ sb = ZeroSB
    /\ rd = [s \in Slots |-> EmptyEntry]
    /\ fat_table = [i \in 0..(FatAlloc - 1) |-> UNINIT]
    /\ mem = "null"
    /\ file_d = [i \in FdSlots |-> ZeroFd]
    /\ open_files = 0
    /\ call = NoCall
    /\ ret = 0
    /\ buf = <<>>
    /\ halted = "no"
    /\ snap = NoSnap
    /\ ncalls = 0

\* The process runs, and the behaviour has a call left.  Behaviours that start
\* with ncalls = -1 are not counted and have any number of calls.
Running ==
    /\ halted = "no"
    /\ IF ncalls < 0 THEN ncalls' = ncalls
       ELSE ncalls < MaxCalls /\ ncalls' = ncalls + 1

\* ------------------------------------------------------------ block device
\* block_read(k, ...) for a block of the FAT region or the block after it, taken
\* as uint16_t entries
FatBlockOnDisk(dfat, k) ==
    [j \in 0..(EPB - 1) |->
        IF (k - 1) * EPB + j \in DOMAIN dfat THEN dfat[(k - 1) * EPB + j] ELSE RAW]

\* ------------------------------------------------------------ fs_mount
\* fs.c:373-376: malloc, then fat_blocks_count + 1 turns of block_read(i+1, ...)
LoadFat(dfat, nblocks) ==
    [e \in 0..(nblocks * BLOCK_SIZE - 1) |->
        IF e \div EPB <= nblocks
        THEN FatBlockOnDisk(dfat, (e \div EPB) + 1)[e % EPB]
        ELSE UNINIT]

\* block_disk_open(): -1 while the block device has a disk open, else 0
block_disk_open(opened) == IF opened THEN 0 - 1 ELSE 0

\* an fs_mount that goes on whatever block_disk_open returns
OpenResultIgnored(r) == FALSE

\* fs.c:350-352: if (block_disk_open(diskname) == -1) return -1
OpenFailed(r) == r = -1

\* fs.c:356-365: the two checks fs_mount makes on block 0
MountRejects(block0, nblocks) ==
    \/ block0.signature # "ECS150FS"
    \/ block0.virtual_disk_blocks_count # nblocks

fs_mount(diskname) ==
    /\ Running
    /\ call' = [op |-> "fs_mount", diskname |-> diskname]
    /\ buf' = <<>>
    /\ IF OpenFailed(block_disk_open(disk_open))
       THEN /\ ret' = -1
            /\ snap' = NoSnap
            /\ UNCHANGED <<disk_open, disk_sb, disk_rdir, disk_fat, sb, rd, fat_table,
                           mem, file_d, open_files, halted>>
       ELSE /\ disk_open' = TRUE
            /\ sb' = BlockZero(diskname, disk_sb)
            /\ IF MountRejects(BlockZero(diskname, disk_sb),
                               block_disk_count(diskname, disk_sb))
               THEN \* fs.c:357, 363: return -1 with the disk left open
                    /\ ret' = -1
                    /\ snap' = NoSnap
                    /\ UNCHANGED <<rd, fat_table, mem>>
               ELSE /\ rd' = disk_rdir
                    /\ fat_table' = LoadFat(disk_fat, disk_sb.fat_blocks_count)
                    /\ mem' = "live"
                    /\ ret' = 0
                    /\ snap' = snap
            /\ UNCHANGED <<disk_sb, disk_rdir, disk_fat, file_d, open_files, halted>>

\* ------------------------------------------------------------ fs_umount
\* a write-back loop that leaves the last FAT block of the disk as it was
StoreFatButLast(dfat, table, nblocks) ==
    [e \in DOMAIN dfat |-> IF e \div EPB < nblocks - 1 THEN table[e] ELSE dfat[e]]

\* fs.c:398-400: block_write(i+1, &fat_table[i*(BLOCK_SIZE/2)]) for i < nblocks
StoreFat(dfat, table, nblocks) ==
    [e \in DOMAIN dfat |-> IF e \div EPB < nblocks THEN table[e] ELSE dfat[e]]

\* fs.c:392-416.  With a disk open that fs_mount rejected, rd and fat_table are
\* what they were before that fs_mount: the block_write calls take their bytes
\* from a null pointer (and fail) or from freed memory, and free() gets a null
\* pointer (and does nothing) or a pointer it has freed before.
fs_umount ==
    /\ Running
    /\ call' = [op |-> "fs_umount"]
    /\ buf' = <<>>
    /\ IF ~disk_open
       THEN /\ ret' = -1
            /\ snap' = NoSnap
            /\ UNCHANGED <<disk_open, disk_sb, disk_rdir, disk_fat, sb, rd, fat_table,
                           mem, file_d, open_files, halted>>
       ELSE \/ /\ IF mem = "live"
                   THEN /\ disk_rdir' = rd
                        /\ disk_fat' = StoreFat(disk_fat, fat_table, sb.fat_blocks_count)
                        /\ snap' = [rd |-> rd, fat |-> fat_table,
                                    data_blocks_count |-> sb.data_blocks_count]
                   ELSE /\ UNCHANGED <<disk_rdir, disk_fat>>
                        /\ snap' = NoSnap
               /\ sb' = [sb EXCEPT !.signature = "",
                                   !.fat_blocks_count = 0,
                                   !.virtual_disk_blocks_count = 0,
                                   !.data_block_start_index = 0,
                                   !.root_directory_block_index = 0]
               /\ mem' = IF mem = "null" THEN "null" ELSE "freed"
               /\ disk_open' = FALSE
               /\ ret' = 0
               /\ UNCHANGED <<disk_sb, rd, fat_table, file_d, open_files, halted>>
            \/ /\ mem = "freed"
               /\ halted' = "crash"
               /\ snap' = NoSnap
               /\ UNCHANGED <<disk_open, disk_sb, disk_rdir, disk_fat, sb, rd,
                              fat_table, mem, file_d, open_files, ret>>

\* A file system is mounted: a disk is open and rd, fat_table point to its tables.
Mounted == disk_open /\ mem = "live"

\* The call stops the process: "crash" (an access the build does not survive) or
\* "hang" (a loop that never ends).  Nothing is returned.
Halt(how, c) ==
    /\ halted' = how
    /\ call' = c
    /\ buf' = <<>>
    /\ snap' = NoSnap
    /\ UNCHANGED <<disk_open, disk_sb, disk_rdir, disk_fat, sb, rd, fat_table, mem, file_d,
                   open_files, ret>>

\* The call returns r and changes nothing else.
Return(r, c) ==
    /\ ret' = r
    /\ call' = c
    /\ buf' = <<>>
    /\ snap' = NoSnap
    /\ UNCHANGED <<disk_open, disk_sb, disk_rdir, disk_fat, sb, rd, fat_table, mem, file_d,
                   open_files, halted>>

\* A call that reads or writes what rd and fat_table point to, body being what
\* the call does with the memory they point to.  Both are null until the first
\* fs_mount that reaches malloc (fs.c:332-333): the access stops the process.
\* Both dangle after the free() of fs_umount (fs.c:411-412): the access stops
\* the process, or it reaches the bytes the freed memory held.
Deref(body, c) ==
    \/ /\ mem # "null"
       /\ body
    \/ /\ mem # "live"
       /\ Halt("crash", c)

\* ------------------------------------------------------------ fs_create
\* a scan that takes the last slot when it runs out
RECURSIVE CreateSlotOrLast(_, _, _)
CreateSlotOrLast(dir, filename, i) ==
    IF i >= FS_FILE_MAX_COUNT THEN FS_FILE_MAX_COUNT - 1
    ELSE IF StrEq(dir[i].filename, filename) THEN -1
    ELSE IF dir[i].filename[1] # 0 THEN CreateSlotOrLast(dir, filename, i + 1)
    ELSE i

\* fs.c:491-507: the slot the loop, which starts at 1, fills; -1 when it returns
\* or runs out before it finds an empty slot
RECURSIVE CreateSlot(_, _, _)
CreateSlot(dir, filename, i) ==
    IF i >= FS_FILE_MAX_COUNT THEN -1
    ELSE IF StrEq(dir[i].filename, filename) THEN -1
    ELSE IF dir[i].filename[1] # 0 THEN CreateSlot(dir, filename, i + 1)
    ELSE i

\* fs.c:501-504: memcpy takes the first FS_FILENAME_LEN bytes of the name.  A
\* name of FS_FILENAME_LEN characters leaves the array without a NUL; strcmp
\* then runs on into file_size, whose first byte is 0 in every entry that
\* fs_create made, so that CStr gives what strcmp sees.
CreateEntry(filename) ==
    [filename |-> SubSeq(filename, 1, FS_FILENAME_LEN),
     file_size |-> 0, first_data_block_index |-> FAT_EOC]

fs_create(filename) ==
    /\ Running
    /\ LET c == [op |-> "fs_create", filename |-> filename]
           i == CreateSlot(rd, filename, 1)
       IN IF strlen(filename) > FS_FILENAME_LEN
          THEN Return(-1, c)
          ELSE Deref(IF i = -1
                     THEN Return(-1, c)
                     ELSE IF i \notin DOMAIN fat_table
                     THEN Halt("crash", c)
                     ELSE /\ rd' = [rd EXCEPT ![i] = CreateEntry(filename)]
                          /\ fat_table' = [fat_table EXCEPT ![i] = i]
                          /\ ret' = -1
                          /\ call' = c
                          /\ buf' = <<>>
                          /\ snap' = NoSnap
                          /\ UNCHANGED <<disk_open, disk_sb, disk_rdir, disk_fat, sb,
                                         mem, file_d, open_files, halted>>,
                     c)

\* ------------------------------------------------------------ fs_delete
\* fs.c:534-544: the slot of the first live entry, from slot 1 on, with that name
RECURSIVE DeleteSlot(_, _, _)
DeleteSlot(dir, filename, i) ==
    IF i >= FS_FILE_MAX_COUNT THEN -1
    ELSE IF dir[i].filename[1] # 0 /\ StrEq(dir[i].filename, filename) THEN i
    ELSE DeleteSlot(dir, filename, i + 1)

\* fs.c:551-556: the FAT after the walk, or how the walk fails.  Every turn zeroes
\* the entry it is at, so a turn at entry 0 with a zero in it repeats for ever.
RECURSIVE ReleaseChain(_, _)
ReleaseChain(fat, current_index) ==
    IF current_index = FAT_EOC THEN [how |-> "done", fat |-> fat]
    ELSE IF current_index \notin DOMAIN fat \/ fat[current_index] < 0
    THEN [how |-> "crash", fat |-> fat]
    ELSE IF current_index = 0 /\ fat[0] = 0 THEN [how |-> "hang", fat |-> fat]
    ELSE ReleaseChain([fat EXCEPT ![current_index] = 0], fat[current_index])

fs_delete(filename) ==
    /\ Running
    /\ LET c == [op |-> "fs_delete"]
           i == DeleteSlot(rd, filename, 1)
       IN IF strlen(filename) > FS_FILENAME_LEN
          THEN Return(-1, c)
          ELSE Deref(IF i = -1
                     THEN Return(-1, c)
                     ELSE LET r == ReleaseChain(fat_table, rd[i].first_data_block_index)
                          IN /\ rd' = [rd EXCEPT ![i].filename = Zeros]
                             /\ fat_table' = r.fat
                             /\ halted' = IF r.how = "done" THEN "no" ELSE r.how
                             /\ ret' = IF r.how = "done" THEN 0 ELSE ret
                             /\ call' = c
                             /\ buf' = <<>>
                             /\ snap' = NoSnap
                             /\ UNCHANGED <<disk_open, disk_sb, disk_rdir, disk_fat, sb,
                                            mem, file_d, open_files>>,
                     c)

\* ------------------------------------------------------------ fs_open
\* fs.c:605-614, 661-665, 731-737: the first slot, from slot 0 on, whose name
\* compares equal to filename; -1 when there is none
RECURSIVE FindSlot(_, _, _)
FindSlot(dir, filename, i) ==
    IF i >= FS_FILE_MAX_COUNT THEN -1
    ELSE IF StrEq(dir[i].filename, filename) THEN i
    ELSE FindSlot(dir, filename, i + 1)

\* fs.c:609-611
OpenFd(old, filename, i) ==
    [filename |-> strcpy(old.filename, filename), fd_return |-> i, offset |-> 0]

fs_open(filename) ==
    /\ Running
    /\ open_files < OpenCap \/ open_files >= 128
    /\ LET c == [op |-> "fs_open"]
           i == FindSlot(rd, filename, 0)
       IN IF strlen(filename) > FS_FILENAME_LEN
          THEN Return(-1, c)
          ELSE Deref(IF i = -1
                     THEN Return(-1, c)
                     ELSE \/ /\ open_files' = Uint8(open_files + 1)
                             /\ file_d' = [file_d EXCEPT
                                             ![i] = OpenFd(file_d[i], filename, i)]
                             /\ ret' = i
                             /\ call' = c
                             /\ buf' = <<>>
                             /\ snap' = NoSnap
                             /\ UNCHANGED <<disk_open, disk_sb, disk_rdir, disk_fat, sb,
                                            rd, fat_table, mem, halted>>
                          \/ \* file_d[i] lies beyond the array
                             /\ i >= FS_OPEN_MAX_COUNT
                             /\ Halt("crash", c),
                     c)

\* ------------------------------------------------------------ descriptors
\* the descriptors the caller passes
FdArgs == (0 - 1)..(FS_OPEN_MAX_COUNT + 1)

\* fs.c:634, 656, 685, 778: fd > FS_OPEN_MAX_COUNT || fd < 0 || fd_return == -1
BadFd(fd) ==
    IF fd > FS_OPEN_MAX_COUNT \/ fd < 0 THEN TRUE ELSE file_d[fd].fd_return = -1

\* the check reads file_d[FS_OPEN_MAX_COUNT], one past the array
ReadsPastArray(fd) == fd = FS_OPEN_MAX_COUNT

\* ------------------------------------------------------------ fs_close
fs_close(fd) ==
    /\ Running
    /\ LET c == [op |-> "fs_close"]
       IN \/ /\ BadFd(fd)
             /\ Return(-1, c)
          \/ /\ ~BadFd(fd)
             /\ file_d' = [file_d EXCEPT ![fd] =
                              [filename |-> strcpy(file_d[fd].filename, Zeros),
                               fd_return |-> -1,
                               offset |-> 0]]
             /\ open_files' = Uint8(open_files - 1)
             /\ ret' = 0
             /\ call' = c
             /\ buf' = <<>>
             /\ snap' = NoSnap
             /\ UNCHANGED <<disk_open, disk_sb, disk_rdir, disk_fat, sb, rd, fat_table, mem,
                            halted>>
          \/ /\ ReadsPastArray(fd)
             /\ Halt("crash", c)

\* ------------------------------------------------------------ fs_stat
fs_stat(fd) ==
    /\ Running
    /\ LET c == [op |-> "fs_stat"]
       IN \/ /\ BadFd(fd)
             /\ Return(-1, c)
          \/ /\ ~BadFd(fd)
             /\ LET i == FindSlot(rd, file_d[fd].filename, 0)
                IN Deref(Return(IF i = -1 THEN 0 ELSE rd[i].file_size, c), c)
          \/ /\ ReadsPastArray(fd)
             /\ Halt("crash", c)

\* ------------------------------------------------------------ fs_lseek
SeekOffsets == {0, 2, BLOCK_SIZE + 1}

\* fs.c:685: the descriptor indexes the directory
SeekFails(fd, offset) ==
    IF BadFd(fd) THEN TRUE ELSE offset > rd[fd].file_size

\* a seek that moves every descriptor
SeekAll(fds, fd, offset) == [i \in DOMAIN fds |-> [fds[i] EXCEPT !.offset = offset]]

\* fs.c:688: file_d[fd].offset = offset
Seek(fds, fd, offset) == [fds EXCEPT ![fd].offset = offset]

fs_lseek(fd, offset) ==
    /\ Running
    /\ LET c == [op |-> "fs_lseek"]
       IN \/ /\ BadFd(fd)
             /\ Return(-1, c)
          \/ /\ ~BadFd(fd)
             /\ Deref(IF SeekFails(fd, offset)
                      THEN Return(-1, c)
                      ELSE /\ file_d' = Seek(file_d, fd, offset)
                           /\ ret' = 0
                           /\ call' = c
                           /\ buf' = <<>>
                           /\ snap' = NoSnap
                           /\ UNCHANGED <<disk_open, disk_sb, disk_rdir, disk_fat, sb,
                                          rd, fat_table, mem, open_files, halted>>,
                      c)
          \/ /\ ReadsPastArray(fd)
             /\ Halt("crash", c)

\* ------------------------------------------------------------ fs_write
\* fs.c:693-699: the loop never changes offset, so for an offset above BLOCK_SIZE
\* it follows the links until it meets FAT_EOC; fuel links without meeting it
\* means the links cycle and the loop never ends.
RECURSIVE data_block_index(_, _, _, _)
data_block_index(fat, offset, index, fuel) ==
    IF ~(index # FAT_EOC /\ BLOCK_SIZE < offset) THEN [how |-> "done", index |-> index]
    ELSE IF index \notin DOMAIN fat \/ fat[index] < 0 THEN [how |-> "crash", index |-> index]
    ELSE IF fuel = 0 THEN [how |-> "hang", index |-> index]
    ELSE data_block_index(fat, offset, fat[index], fuel - 1)

\* the caller's buffer: a null pointer, or count bytes
BufArgs == {"null", "bytes"}
WriteCounts == {0, BLOCK_SIZE, BLOCK_SIZE + 1}

fs_write(fd, buffer, count) ==
    /\ Running
    /\ LET c == [op |-> "fs_write"]
       IN IF fd \notin DOMAIN file_d
          THEN \* file_d[fd] is read outside the array: whatever name is there
               \/ Halt("crash", c)
               \/ /\ mem # "null"
                  /\ \E r \in {0 - 1, 0} : Return(r, c)
          ELSE \/ LET i == FindSlot(rd, file_d[fd].filename, 0)
                  IN Deref(IF i = -1
                           THEN Return(-1, c)
                           ELSE LET w == data_block_index(fat_table, file_d[fd].offset,
                                             rd[i].first_data_block_index, FatAlloc + 1)
                                IN IF w.how = "done"
                                   THEN Return(0, [op |-> "fs_write", fd |-> fd,
                                                   offset |-> file_d[fd].offset,
                                                   buf |-> buffer, count |-> count])
                                   ELSE Halt(w.how, c),
                           c)
               \/ /\ fd >= FS_OPEN_MAX_COUNT
                  /\ Halt("crash", c)

\* ------------------------------------------------------------ fs_read
\* fs.c:803-805: b_current links from the first block
RECURSIVE WalkLinks(_, _, _)
WalkLinks(fat, b_iter, n) ==
    IF n = 0 THEN b_iter
    ELSE IF b_iter \notin DOMAIN fat \/ fat[b_iter] < 0 THEN -1
    ELSE WalkLinks(fat, fat[b_iter], n - 1)

\* block_read(b_iter + sb.data_block_start_index, buffer_b): the bytes from..from+n-1
\* of the bounce buffer afterwards (what malloc left there when the read fails)
BounceBytes(b_iter, from, n) ==
    [k \in 1..n |->
        IF b_iter + sb.data_block_start_index < sb.virtual_disk_blocks_count
        THEN DataByte(b_iter, from + k - 1)
        ELSE UNINIT]

ReadFuel == 64

\* fs.c:791-826.  st is the loop's state: count, offset, read_bytes, the bytes
\* stored at buf so far (out), the count bytes the caller's buffer is known to
\* have (size), and whether a memcpy went past them (over).  i < 0 is the head of the while
\* loop, i >= 0 the head of turn i of the for loop.
RECURSIVE ReadLoop(_, _, _, _, _, _, _, _)
ReadLoop(dir, fat, st, i, b_iter, byte_location, new_shift, fuel) ==
    IF fuel = 0 THEN [how |-> "crash", st |-> st]
    ELSE IF i < 0
    THEN IF st.count = 0 \/ st.offset >= dir[0].file_size
         THEN [how |-> "done", st |-> st]
         ELSE LET b == WalkLinks(fat, dir[0].first_data_block_index,
                                 st.offset \div BLOCK_SIZE)
              IN IF b < 0 THEN [how |-> "crash", st |-> st]
                 ELSE ReadLoop(dir, fat, st, 0, b, st.offset % BLOCK_SIZE,
                               BLOCK_SIZE, fuel - 1)
    ELSE IF ~(i < (st.count \div BLOCK_SIZE) + 1)
    THEN ReadLoop(dir, fat, st, -1, 0, 0, 0, fuel - 1)
    ELSE IF byte_location > 0 \/ BLOCK_SIZE <= st.count + byte_location
    THEN LET n == IF byte_location > 0 THEN BLOCK_SIZE - byte_location ELSE new_shift
         IN IF st.count < n
            THEN \* count -= new_shift wraps around 2^64: the for loop goes on storing
                 \* n bytes a turn, further and further past the buffer
                 [how |-> "crash", st |-> st]
            ELSE ReadLoop(dir, fat,
                          [count |-> st.count - n,
                           offset |-> st.offset + n,
                           read_bytes |-> st.read_bytes + n,
                           out |-> st.out \o BounceBytes(b_iter, byte_location, n),
                           over |-> st.over \/ st.read_bytes + n > st.size,
                           size |-> st.size],
                          i + 1, b_iter, byte_location, n, fuel - 1)
    ELSE ReadLoop(dir, fat,
                  [count |-> st.count,
                   offset |-> st.offset + st.count,
                   read_bytes |-> st.read_bytes + st.count,
                   out |-> st.out \o BounceBytes(b_iter, byte_location, st.count),
                   over |-> st.over \/ st.read_bytes + st.count > st.size,
                   size |-> st.size],
                  -1, 0, 0, 0, fuel - 1)

ReadCounts == {0, 1, BLOCK_SIZE}

fs_read(fd, buffer, count) ==
    /\ Running
    /\ LET c == [op |-> "fs_read"]
       IN \/ /\ BadFd(fd) \/ buffer = "null"
             /\ Return(-1, c)
          \/ /\ ~(BadFd(fd) \/ buffer = "null")
             /\ LET r == ReadLoop(rd, fat_table,
                            [count |-> count, offset |-> file_d[fd].offset,
                             read_bytes |-> 0, out |-> <<>>, over |-> FALSE,
                             size |-> count],
                            -1, 0, 0, 0, ReadFuel)
                IN \/ /\ r.how = "done"
                      /\ count = 0 \/ mem # "null"
                      /\ file_d' = [file_d EXCEPT
                                      ![fd].offset = file_d[fd].offset + r.st.read_bytes]
                      /\ ret' = r.st.read_bytes
                      /\ buf' = r.st.out
                      /\ call' = c
                      /\ snap' = NoSnap
                      /\ UNCHANGED <<disk_open, disk_sb, disk_rdir, disk_fat, sb, rd,
                                     fat_table, mem, open_files, halted>>
                   \/ /\ r.how # "done" \/ r.st.over
                      /\ Halt("crash", c)
                   \/ \* the loop reads rd->file_size (fs.c:792) through a null or
                      \* a dangling rd
                      /\ count > 0 /\ mem # "live"
                      /\ Halt("crash", c)
          \/ /\ ReadsPastArray(fd)
             /\ Halt("crash", c)

\* ------------------------------------------------------------ fs_info, fs_ls
\* a count over every entry of the FAT blocks
get_fat_free_entries ==
    Cardinality({i \in 0..(sb.fat_blocks_count * EPB - 1) : fat_table[i] = 0})

\* fs.c:420-429
get_fat_free_blocks ==
    Cardinality({i \in 0..(sb.data_blocks_count - 1) : fat_table[i] = 0})

\* fs.c:431-440
get_rdir_free_blocks ==
    Cardinality({i \in Slots : rd[i].filename[1] = 0})

fs_info ==
    /\ Running
    /\ IF ~disk_open
       THEN Return(-1, [op |-> "fs_info"])
       ELSE Deref(Return(0, [op |-> "fs_info",
                             fat_free |-> get_fat_free_blocks,
                             rdir_free |-> get_rdir_free_blocks]),
                  [op |-> "fs_info"])

\* fs.c:567-579: the check of block_disk_count() has an empty body
fs_ls ==
    /\ Running
    /\ Deref(Return(0, [op |-> "fs_ls",
                        listed |-> {<<rd[i].filename, rd[i].file_size,
                                      rd[i].first_data_block_index>> : i \in Live(rd)}]),
             [op |-> "fs_ls"])

\* ------------------------------------------------------------ the library
Next ==
    \/ \E diskname \in DiskNames : fs_mount(diskname)
    \/ fs_umount
    \/ fs_info
    \/ fs_ls
    \/ \E filename \in CreateNames : fs_create(filename)
    \/ \E filename \in FileNames : fs_delete(filename)
    \/ \E filename \in FileNames : fs_open(filename)
    \/ \E fd \in FdArgs : fs_close(fd)
    \/ \E fd \in FdArgs : fs_stat(fd)
    \/ \E fd \in FdArgs, offset \in SeekOffsets : fs_lseek(fd, offset)
    \/ \E fd \in FdArgs, buffer \in BufArgs, count \in WriteCounts :
          fs_write(fd, buffer, count)
    \/ \E fd \in FdArgs, buffer \in BufArgs, count \in ReadCounts :
          fs_read(fd, buffer, count)

\* Every call of the library, in behaviours of at most MaxCalls calls.
Spec == Init /\ [][Next]_vars

\* The calls that read or write the directory, the FAT and the disk, in
\* behaviours of any length in which the caller mounts the disk named "disk"
\* and makes the other calls while it is mounted.  No other call changes the
\* directory, the FAT or the disk (or sb, mem).
InitDir ==
    /\ \E img \in Images :
          /\ WellFormed(img)
          /\ disk_sb = img.sb
          /\ disk_rdir = img.rdir
          /\ disk_fat = img.fat
    /\ disk_open = FALSE
    /\ sb = ZeroSB
    /\ rd = [s \in Slots |-> EmptyEntry]
    /\ fat_table = [i \in 0..(FatAlloc - 1) |-> UNINIT]
    /\ mem = "null"
    /\ file_d = [i \in FdSlots |-> ZeroFd]
    /\ open_files = 0
    /\ call = NoCall
    /\ ret = 0
    /\ buf = <<>>
    /\ halted = "no"
    /\ snap = NoSnap
    /\ ncalls = -1

NextDir ==
    \/ fs_mount("disk")
    \/ fs_umount
    \/ Mounted /\ fs_info
    \/ Mounted /\ fs_ls
    \/ Mounted /\ \E filename \in CreateNames : fs_create(filename)
    \/ Mounted /\ \E filename \in FileNames : fs_delete(filename)

SpecDir == InitDir /\ [][NextDir]_vars

\* data_block_index on its own: a mounted file system whose FAT holds any links
\* between the data blocks, and calls with any offset and any first block.
IndexLinks == [1..(DataBlocks - 1) -> {0, FAT_EOC} \cup (1..(DataBlocks - 1))]
IndexOffsets == 0..(2 * BLOCK_SIZE + 1)
IndexStarts == {FAT_EOC} \cup (1..(DataBlocks - 1))

InitIndex ==
    /\ disk_sb = DiskSB
    /\ disk_rdir = DirOf(<<>>)
    /\ \E links \in IndexLinks :
          /\ disk_fat = FatOf(links)
          /\ fat_table = LoadFat(FatOf(links), FatBlocks)
    /\ disk_open = TRUE
    /\ sb = DiskSB
    /\ rd = DirOf(<<>>)
    /\ mem = "live"
    /\ file_d = [i \in FdSlots |-> ZeroFd]
    /\ open_files = 0
    /\ call = NoCall
    /\ ret = 0
    /\ buf = <<>>
    /\ halted = "no"
    /\ snap = NoSnap
    /\ ncalls = -1

\* fs.c:745: index = data_block_index(offset, file_start), the value kept in ret
call_data_block_index(offset, file_start) ==
    /\ Running
    /\ LET r == data_block_index(fat_table, offset, file_start, FatAlloc + 1)
           c == [op |-> "data_block_index", offset |-> offset,
                 file_start |-> file_start]
       IN IF r.how = "done" THEN Return(r.index, c) ELSE Halt(r.how, c)

NextIndex ==
    \E offset \in IndexOffsets, file_start \in IndexStarts :
       call_data_block_index(offset, file_start)

SpecIndex == InitIndex /\ [][NextIndex]_vars

\* ------------------------------------------------- vocabulary of the properties
\* fd is a descriptor fs_open handed out for a file and fs_close has not taken
\* back: only fs_open stores a non-empty name in file_d (fs.c:609), only fs_close
\* clears it (fs.c:637).
IsOpen(fd) ==
    IF fd \in 0..(FS_OPEN_MAX_COUNT - 1)
    THEN file_d[fd].filename[1] # 0 /\ file_d[fd].fd_return # -1
    ELSE FALSE

OpenFds == {fd \in 0..(FS_OPEN_MAX_COUNT - 1) : IsOpen(fd)}

\* the live directory entries that carry the name fd was opened with
BoundSlots(fd) == {s \in Live(rd) : StrEq(rd[s].filename, file_d[fd].filename)}
BoundSlot(fd) == CHOOSE s \in BoundSlots(fd) : TRUE

OpenOn(filename) == {fd \in OpenFds : StrEq(file_d[fd].filename, filename)}

\* a mounted file system whose directory and FAT satisfy the data-model rules
Sound == Mounted /\ ChainIntegrity(rd, fat_table) /\ UniqueNames(rd)

ChainOf(dir, fat, s) == ChainFrom(fat, dir[s].first_data_block_index, DataBlocks + 1)
FreeBlocks == {b \in 1..(DataBlocks - 1) : fat_table[b] = 0}

\* the blocks a write of count bytes at fd's offset has to add to the file
NewBlocks(fd, count) ==
    LET s == BoundSlot(fd)
    IN Max(0, CeilDiv(file_d[fd].offset + count, BLOCK_SIZE)
                 - Len(ChainOf(rd, fat_table, s)))

\* the bytes of the file in slot s, read along its chain
FileBytes(dir, fat, s) ==
    LET c == ChainOf(dir, fat, s)
    IN [k \in 1..Min(dir[s].file_size, Len(c) * BLOCK_SIZE) |->
           DataByte(c[((k - 1) \div BLOCK_SIZE) + 1], (k - 1) % BLOCK_SIZE)]

\* the count bytes a caller hands to fs_write: none of them is a DataByte
CallerBytes(count) == [k \in 1..count |-> 1000 + k]

\* ---------------------------------------------------------------- C1
\* C1: in every state reached by library calls on a mounted well-formed image,
\* every live entry's chain is acyclic, ends at FAT_EOC, has
\* ceil(file_size / BLOCK_SIZE) blocks and shares no block with another chain.
C1_ChainIntegrity ==
    (Mounted /\ halted = "no") => ChainIntegrity(rd, fat_table)

\* ---------------------------------------------------------------- C2
\* C2: no two live directory entries hold the same name, because fs_create(name)
\* returns -1 and installs nothing whenever a live entry in any slot has the name.
C2_UniqueNames ==
    /\ [](Mounted => UniqueNames(rd))
    /\ [][\A filename \in FileNames :
            (/\ fs_create(filename)
             /\ \E s \in Live(rd) : StrEq(rd[s].filename, filename))
            => (ret' = -1 /\ rd' = rd /\ fat_table' = fat_table)]_vars

\* ---------------------------------------------------------------- C3
\* C3: when fs_mount succeeds right after a successful fs_umount, the directory
\* in memory and the FAT entries 0..data_blocks_count-1 equal what they were
\* when that fs_umount was entered.
C3_PersistenceRoundTrip ==
    (call.op = "fs_mount" /\ ret = 0 /\ snap # NoSnap)
    => /\ rd = snap.rd
       /\ \A i \in 0..(snap.data_blocks_count - 1) : fat_table[i] = snap.fat[i]

\* a remount that brings back a directory and a FAT no image started with
C3_Witness ==
    /\ call.op = "fs_mount" /\ ret = 0 /\ snap # NoSnap
    /\ \A img \in Images :
          /\ rd # img.rdir
          /\ \E i \in 0..(DataBlocks - 1) : fat_table[i] # img.fat[i]

\* ---------------------------------------------------------------- C4
\* C4: fs_write of count bytes on an open descriptor, with enough free data
\* blocks, returns count, sets the size to max(old size, old offset + count),
\* advances the offset by count and leaves a chain of ceil(new size /
\* BLOCK_SIZE) blocks.
C4_WriteReturnsCount ==
    [][\A fd \in FdArgs, count \in WriteCounts :
         (/\ Sound /\ IsOpen(fd) /\ BoundSlots(fd) # {}
          /\ file_d[fd].offset <= rd[BoundSlot(fd)].file_size
          /\ NewBlocks(fd, count) <= Cardinality(FreeBlocks)
          /\ fs_write(fd, "bytes", count))
         => LET s == BoundSlot(fd)
                o == file_d[fd].offset
            IN /\ halted' = "no"
               /\ ret' = count
               /\ rd'[s].file_size = Max(rd[s].file_size, o + count)
               /\ file_d'[fd].offset = o + count
               /\ Len(ChainOf(rd', fat_table', s))
                     = CeilDiv(rd'[s].file_size, BLOCK_SIZE)]_vars

\* ---------------------------------------------------------------- C5
\* C5: when a write needs more new blocks than the K that are free, fs_write
\* returns the bytes that fit in the file's blocks plus the K free ones (0, not
\* -1, when none fits), takes the K blocks and sets the size to cover just the
\* bytes stored.
C5_PartialWrite ==
    [][\A fd \in FdArgs, count \in WriteCounts :
         (/\ Sound /\ IsOpen(fd) /\ BoundSlots(fd) # {}
          /\ file_d[fd].offset <= rd[BoundSlot(fd)].file_size
          /\ NewBlocks(fd, count) > Cardinality(FreeBlocks)
          /\ fs_write(fd, "bytes", count))
         => LET s == BoundSlot(fd)
                o == file_d[fd].offset
                room == (Len(ChainOf(rd, fat_table, s)) + Cardinality(FreeBlocks))
                           * BLOCK_SIZE
            IN /\ halted' = "no"
               /\ ret' = Max(0, room - o)
               /\ rd'[s].file_size = Max(rd[s].file_size, o + ret')
               /\ Len(ChainOf(rd', fat_table', s)) * BLOCK_SIZE = room]_vars

\* ---------------------------------------------------------------- C6
\* C6: after fs_write has been handed count bytes for offset o of a file with
\* room for them, fs_read of count bytes at offset o through any descriptor
\* open on that file returns those bytes, and the write leaves the other bytes
\* of the file as they were.
C6_WriteReadRoundTrip ==
    /\ [][\A fd \in FdArgs, count \in WriteCounts :
            (/\ Sound /\ IsOpen(fd) /\ BoundSlots(fd) # {}
             /\ file_d[fd].offset <= rd[BoundSlot(fd)].file_size
             /\ fs_write(fd, "bytes", count))
            => LET s == BoundSlot(fd)
                   o == file_d[fd].offset
                   old == FileBytes(rd, fat_table, s)
                   new == FileBytes(rd', fat_table', s)
               IN \A k \in DOMAIN old :
                     (k <= o \/ k > o + count) => (k \in DOMAIN new /\ new[k] = old[k])]_vars
    /\ [][\A fd \in FdArgs :
            (/\ call.op = "fs_write" /\ "fd" \in DOMAIN call
             /\ call.buf = "bytes" /\ call.count > 0
             /\ Sound /\ IsOpen(call.fd) /\ IsOpen(fd)
             /\ BoundSlots(fd) # {}
             /\ StrEq(file_d[fd].filename, file_d[call.fd].filename)
             /\ file_d[fd].offset = call.offset
             /\ fs_read(fd, "bytes", call.count))
            => (halted' = "no" /\ ret' = call.count /\ buf' = CallerBytes(call.count))]_vars

\* ---------------------------------------------------------------- C7
\* C7: fs_read on an open descriptor returns min(count, size - offset) for the
\* size of the file the descriptor is bound to (0 when offset >= size or count
\* is 0), never more than count, and advances the offset by what it returned.
C7_ReadReturnsSpan ==
    [][\A fd \in FdArgs, count \in ReadCounts :
         (/\ Sound /\ IsOpen(fd) /\ BoundSlots(fd) # {}
          /\ file_d[fd].offset <= rd[BoundSlot(fd)].file_size
          /\ fs_read(fd, "bytes", count))
         => LET size == rd[BoundSlot(fd)].file_size
                o == file_d[fd].offset
            IN /\ halted' = "no"
               /\ ret' = Min(count, size - o)
               /\ ret' <= count
               /\ file_d'[fd].offset = o + ret'
               /\ file_d'[fd].offset <= size]_vars

\* ---------------------------------------------------------------- C8
\* C8: fs_open of a file that is already open returns a descriptor different
\* from every descriptor open on the file, and leaves their offsets alone.
C8_OpensAreIndependent ==
    [][\A filename \in FileNames :
         (/\ Mounted /\ OpenOn(filename) # {}
          /\ fs_open(filename)
          /\ halted' = "no" /\ ret' # -1)
         => \A fd \in OpenOn(filename) :
               /\ ret' # fd
               /\ file_d'[fd].offset = file_d[fd].offset]_vars

\* ---------------------------------------------------------------- C9
\* C9: fs_delete of a file with an open descriptor returns -1 and leaves the
\* directory, the FAT and the descriptors unchanged, so that every open
\* descriptor refers to a live directory entry.
C9_DeleteOpenFileFails ==
    /\ [][\A filename \in FileNames :
            (/\ Sound /\ OpenOn(filename) # {}
             /\ fs_delete(filename))
            => (/\ halted' = "no" /\ ret' = -1
                /\ UNCHANGED <<rd, fat_table, file_d, open_files>>)]_vars
    /\ [](Mounted => \A fd \in OpenFds : BoundSlots(fd) # {})

\* ---------------------------------------------------------------- C10
\* C10: fs_umount with a descriptor still open returns -1 and leaves the file
\* system mounted: the disk is not written, the directory and the FAT in memory
\* are not released, the disk is not closed.
C10_UmountWithOpenFails ==
    [][(Mounted /\ OpenFds # {} /\ fs_umount)
       => (/\ ret' = -1
           /\ UNCHANGED <<disk_open, disk_sb, disk_rdir, disk_fat, rd, fat_table, mem, sb>>)]_vars

\* ---------------------------------------------------------------- C11
\* C11: fs_create of a valid name that no live entry has, with a directory slot
\* free, returns 0 and leaves exactly one live entry with the name, of size 0
\* and first block FAT_EOC.
C11_CreateSucceeds ==
    [][\A filename \in FileNames :
         (/\ Sound
          /\ strlen(filename) \in 1..(FS_FILENAME_LEN - 1)
          /\ \A s \in Live(rd) : ~StrEq(rd[s].filename, filename)
          /\ Live(rd) # Slots
          /\ fs_create(filename))
         => /\ halted' = "no"
            /\ ret' = 0
            /\ \E s \in Live(rd') :
                  /\ StrEq(rd'[s].filename, filename)
                  /\ rd'[s].file_size = 0
                  /\ rd'[s].first_data_block_index = FAT_EOC
                  /\ \A t \in Live(rd') \ {s} : ~StrEq(rd'[t].filename, filename)]_vars

\* ---------------------------------------------------------------- C12
\* C12: fs_create leaves every FAT entry as it was, and deleting the file that
\* was just created leaves the free-block count as it was, so that create then
\* delete gives back the free-block count from before the create.
C12_CreateDeleteKeepsFat ==
    /\ [][\A filename \in FileNames :
            (Sound /\ fs_create(filename)) => fat_table' = fat_table]_vars
    /\ [][\A filename \in FileNames :
            (/\ Mounted /\ call.op = "fs_create"
             /\ \E s \in Live(rd) :
                   /\ StrEq(rd[s].filename, filename)
                   /\ rd[s].first_data_block_index = FAT_EOC
             /\ fs_delete(filename))
            => get_fat_free_blocks' = get_fat_free_blocks]_vars

\* ---------------------------------------------------------------- C13
\* C13: fs_delete of a live file with no open descriptor, in any slot (slot 0
\* too), returns 0, frees the slot, zeroes the FAT entries of the file's chain
\* and leaves every other FAT entry and directory entry as it was.
C13_DeleteFrame ==
    [][\A filename \in FileNames, s \in Slots :
         (/\ Sound
          /\ s \in Live(rd) /\ StrEq(rd[s].filename, filename)
          /\ OpenOn(filename) = {}
          /\ fs_delete(filename))
         => LET chain == Range(ChainOf(rd, fat_table, s))
            IN /\ halted' = "no"
               /\ ret' = 0
               /\ rd'[s].filename[1] = 0
               /\ \A t \in Slots \ {s} : rd'[t] = rd[t]
               /\ \A e \in DOMAIN fat_table :
                     fat_table'[e] = IF e \in chain THEN 0 ELSE fat_table[e]]_vars

\* ---------------------------------------------------------------- C14
\* C14: with every directory slot live, fs_create returns -1 and leaves the
\* directory and the FAT as they were; the live entries never number more than
\* FS_FILE_MAX_COUNT.
C14_CreateOnFullDirectory ==
    /\ [][\A filename \in CreateNames :
            (Mounted /\ Live(rd) = Slots /\ fs_create(filename))
            => (halted' = "no" /\ ret' = -1 /\ rd' = rd /\ fat_table' = fat_table)]_vars
    /\ [](Cardinality(Live(rd)) <= FS_FILE_MAX_COUNT)

\* a valid name was given to fs_create, the directory is full and no slot the
\* scan reaches holds the name: the call came upon the full directory
C14_Witness ==
    /\ Mounted /\ call.op = "fs_create" /\ ret = -1
    /\ Live(rd) = Slots
    /\ strlen(call.filename) \in 1..(FS_FILENAME_LEN - 1)
    /\ \A s \in Slots \ {0} : ~StrEq(rd[s].filename, call.filename)

\* ---------------------------------------------------------------- C15
\* C15: fs_create returns -1 and installs nothing for the empty name and for a
\* name of FS_FILENAME_LEN characters or more, so that every live entry's name
\* has its NUL inside the array.
C15_CreateChecksName ==
    /\ [][\A filename \in CreateNames :
            (/\ Mounted
             /\ strlen(filename) = 0 \/ strlen(filename) >= FS_FILENAME_LEN
             /\ fs_create(filename))
            => (halted' = "no" /\ ret' = -1 /\ rd' = rd /\ fat_table' = fat_table)]_vars
    /\ [](Mounted => \A s \in Live(rd) : NulAt(rd[s].filename, 1) <= FS_FILENAME_LEN)

\* ---------------------------------------------------------------- C16
\* C16: fs_open and fs_delete of a name that no live entry has (the empty name
\* too) return -1 and change neither the descriptors, open_files, the
\* directory nor the FAT.
C16_NotFound ==
    [][\A filename \in FileNames :
         (/\ Mounted
          /\ \A s \in Live(rd) : ~StrEq(rd[s].filename, filename)
          /\ fs_open(filename) \/ fs_delete(filename))
         => (/\ halted' = "no" /\ ret' = -1
             /\ UNCHANGED <<file_d, open_files, rd, fat_table>>)]_vars

\* ---------------------------------------------------------------- C17
\* the descriptors fs_open has handed out for a file and fs_close has not taken
\* back, whether or not they lie inside file_d
HandedOut == {fd \in FdSlots : file_d[fd].filename[1] # 0 /\ file_d[fd].fd_return = fd}

\* C17: fs_open returns -1 when FS_OPEN_MAX_COUNT descriptors are open and any
\* descriptor it returns lies in 0..FS_OPEN_MAX_COUNT-1, so that at most
\* FS_OPEN_MAX_COUNT descriptors are open at once.
C17_OpenCap ==
    /\ [][\A filename \in FileNames :
            (Mounted /\ fs_open(filename))
            => (/\ halted' = "no"
                /\ ret' \in (0 - 1)..(FS_OPEN_MAX_COUNT - 1)
                /\ Cardinality(HandedOut) >= FS_OPEN_MAX_COUNT => ret' = -1)]_vars
    /\ [](Cardinality(HandedOut) <= FS_OPEN_MAX_COUNT)

\* ---------------------------------------------------------------- C18
\* C18: fs_close(fd) returns 0 and closes fd when fd is an open descriptor in
\* 0..FS_OPEN_MAX_COUNT-1; for any other fd (out of range, never handed out,
\* closed already) it returns -1 and leaves file_d and open_files as they were.
C18_CloseStateMachine ==
    [][\A fd \in FdArgs :
         (Mounted /\ fs_close(fd))
         => IF IsOpen(fd)
            THEN /\ halted' = "no" /\ ret' = 0
                 /\ file_d'[fd].fd_return = -1
                 /\ \A other \in FdSlots \ {fd} : file_d'[other] = file_d[other]
            ELSE /\ halted' = "no" /\ ret' = -1
                 /\ UNCHANGED <<file_d, open_files>>]_vars

\* ---------------------------------------------------------------- C19
\* C19: fs_stat(fd), for a descriptor that fs_open handed out and whose entry
\* is still live, returns the file_size of that entry and changes no state.
C19_StatReturnsSize ==
    [][\A fd \in FdArgs :
         (/\ Sound /\ fd \in HandedOut /\ fd \in BoundSlots(fd)
          /\ fs_stat(fd))
         => (/\ halted' = "no"
             /\ ret' = rd[fd].file_size
             /\ UNCHANGED <<disk_open, disk_sb, disk_rdir, disk_fat, sb, rd, fat_table, mem,
                            file_d, open_files>>)]_vars

\* ---------------------------------------------------------------- C20
\* C20: fs_lseek(fd, offset), for a descriptor that fs_open handed out and
\* whose entry is still live, returns -1 and keeps the offset when offset is
\* above the file's size, and else returns 0 and sets the offset to offset.
C20_SeekWithinSize ==
    [][\A fd \in FdArgs, offset \in SeekOffsets :
         (/\ Sound /\ fd \in HandedOut /\ fd \in BoundSlots(fd)
          /\ fs_lseek(fd, offset))
         => /\ halted' = "no"
            /\ IF offset > rd[fd].file_size
               THEN ret' = -1 /\ file_d' = file_d
               ELSE ret' = 0 /\ file_d' = [file_d EXCEPT ![fd].offset = offset]]_vars

\* ---------------------------------------------------------------- C21
\* C21: fs_stat, fs_lseek, fs_read and fs_write return -1 and leave every
\* descriptor, the directory and the FAT as they were when fd is negative, is
\* FS_OPEN_MAX_COUNT or more, or is not open; fs_read and fs_write return -1
\* when the buffer is a null pointer.
C21_BadDescriptor ==
    [][\A fd \in FdArgs :
         /\ (/\ Mounted /\ ~IsOpen(fd)
             /\ \/ fs_stat(fd)
                \/ \E offset \in SeekOffsets : fs_lseek(fd, offset)
                \/ \E count \in ReadCounts : fs_read(fd, "bytes", count)
                \/ \E count \in WriteCounts : fs_write(fd, "bytes", count))
            => (/\ halted' = "no" /\ ret' = -1
                /\ UNCHANGED <<file_d, rd, fat_table>>)
         /\ (/\ Mounted
             /\ \/ \E count \in ReadCounts : fs_read(fd, "null", count)
                \/ \E count \in WriteCounts : fs_write(fd, "null", count))
            => (halted' = "no" /\ ret' = -1)]_vars

\* ---------------------------------------------------------------- C22
\* C22: fs_mount returns -1 when block 0 lacks the signature ECS150FS or counts
\* a number of blocks that is not the disk's; after such an fs_mount no file
\* system is mounted: fs_info and fs_umount return -1, and an fs_mount of a
\* valid disk returns 0.
C22_FailedMountInstallsNothing ==
    /\ [][\A diskname \in DiskNames :
            (/\ ~disk_open
             /\ MountRejects(BlockZero(diskname, disk_sb),
                             block_disk_count(diskname, disk_sb))
             /\ fs_mount(diskname))
            => ret' = -1]_vars
    /\ [][(/\ call.op = "fs_mount" /\ ret = -1 /\ mem # "live"
           /\ call.diskname # "disk")
          => /\ (fs_info \/ fs_umount) => (halted' = "no" /\ ret' = -1)
             /\ fs_mount("disk") => ret' = 0]_vars

\* ---------------------------------------------------------------- C23
\* the layout rules between the fields of block 0
LayoutHolds(block0) ==
    /\ block0.data_block_start_index = block0.root_directory_block_index + 1
    /\ block0.root_directory_block_index = block0.fat_blocks_count + 1
    /\ block0.fat_blocks_count = CeilDiv(block0.data_blocks_count, EPB)

\* C23: fs_mount returns -1 for every disk whose block 0 breaks a layout rule:
\* first data block = directory block + 1, directory block = FAT blocks + 1,
\* FAT blocks = ceil(data blocks / entries per FAT block).
C23_MountChecksLayout ==
    [][\A diskname \in DiskNames :
         (~LayoutHolds(BlockZero(diskname, disk_sb)) /\ fs_mount(diskname))
         => ret' = -1]_vars

\* ---------------------------------------------------------------- C24
\* C24: with no file system mounted (before the first fs_mount, after an
\* fs_umount that returned 0) each of fs_umount, fs_info, fs_create, fs_delete,
\* fs_ls, fs_open, fs_close, fs_stat, fs_lseek, fs_read and fs_write returns -1
\* and changes no state.
C24_NotMountedFails ==
    [][(/\ ~disk_open
        /\ call'.op \in {"fs_umount", "fs_info", "fs_create", "fs_delete", "fs_ls",
                         "fs_open", "fs_close", "fs_stat", "fs_lseek", "fs_read",
                         "fs_write"})
       => (/\ halted' = "no" /\ ret' = -1
           /\ UNCHANGED <<disk_open, disk_sb, disk_rdir, disk_fat, sb, rd, fat_table,
                          mem, file_d, open_files>>)]_vars

\* ---------------------------------------------------------------- C25
\* C25: fs_create of a valid name that no entry has puts the new entry into the
\* free slot of lowest index, slot 0 included, and leaves every other slot as
\* it was.
C25_CreateLowestFreeSlot ==
    [][\A filename \in CreateNames :
         (/\ Mounted
          /\ strlen(filename) \in 1..FS_FILENAME_LEN
          /\ \A s \in Live(rd) : ~StrEq(rd[s].filename, filename)
          /\ Slots \ Live(rd) # {}
          /\ fs_create(filename))
         => LET low == CHOOSE s \in Slots \ Live(rd) :
                          \A t \in Slots \ Live(rd) : s <= t
            IN /\ halted' = "no"
               /\ StrEq(rd'[low].filename, filename)
               /\ \A s \in Slots \ {low} : rd'[s] = rd[s]]_vars

\* ---------------------------------------------------------------- C26
\* C26: fs_open of the name of a file, with a descriptor free, returns the
\* lowest descriptor that is not open, binds it to the name with offset 0, adds
\* one to the number of open descriptors and leaves every other descriptor as
\* it was.
C26_OpenLowestDescriptor ==
    [][\A filename \in FileNames :
         (/\ Sound
          /\ strlen(filename) >= 1
          /\ \E s \in Live(rd) : StrEq(rd[s].filename, filename)
          /\ HandedOut \subseteq OpenFds
          /\ open_files = Cardinality(OpenFds)
          /\ OpenFds # 0..(FS_OPEN_MAX_COUNT - 1)
          /\ fs_open(filename))
         => LET low == CHOOSE fd \in (0..(FS_OPEN_MAX_COUNT - 1)) \ OpenFds :
                          \A other \in (0..(FS_OPEN_MAX_COUNT - 1)) \ OpenFds :
                             fd <= other
            IN /\ halted' = "no"
               /\ ret' = low
               /\ StrEq(file_d'[low].filename, filename)
               /\ file_d'[low].offset = 0
               /\ open_files' = open_files + 1
               /\ \A other \in FdSlots \ {low} : file_d'[other] = file_d[other]]_vars

RECURSIVE WalkEnds(_, _, _)
WalkEnds(fat, current_index, n) ==
    IF current_index = FAT_EOC THEN TRUE
    ELSE IF n = 0 \/ current_index \notin DOMAIN fat THEN FALSE
    ELSE IF fat[current_index] < 0 THEN FALSE
    ELSE WalkEnds([fat EXCEPT ![current_index] = 0], fat[current_index], n - 1)

\* C28: every fs_delete returns: in the states that fs_mount, fs_create and
\* fs_delete reach, the walk that releases the chain meets FAT_EOC within
\* data_blocks_count turns.
C28_DeleteTerminates ==
    [][\A filename \in FileNames :
         (Mounted /\ fs_delete(filename))
         => /\ halted' = "no"
            /\ LET i == DeleteSlot(rd, filename, 1)
               IN (strlen(filename) <= FS_FILENAME_LEN /\ i # -1)
                  => WalkEnds(fat_table, rd[i].first_data_block_index,
                              sb.data_blocks_count)]_vars

C30_InfoReportsFree ==
    [][(call'.op = "fs_info" /\ Mounted /\ fs_info)
       => (/\ halted' = "no" /\ ret' = 0
           /\ UNCHANGED <<disk_open, disk_sb, disk_rdir, disk_fat, sb, rd, fat_table,
                          mem, file_d, open_files>>
           /\ call'.fat_free =
                 Cardinality({b \in 0..(sb.data_blocks_count - 1) : fat_table[b] = 0})
           /\ call'.rdir_free = Cardinality(Slots \ Live(rd)))]_vars

\* fs_info has returned 0 on a mounted file system with a live entry, a free
\* slot, a free block and a block that is not free
C30_Witness ==
    /\ call.op = "fs_info" /\ ret = 0 /\ Mounted
    /\ call.rdir_free \in 1..(FS_FILE_MAX_COUNT - 1)
    /\ call.fat_free \in 1..(DataBlocks - 1)

\* ---------------------------------------------------------------- C31
\* C31: on a mounted file system open_files is the number of descriptors that
\* are open and lies in 0..FS_OPEN_MAX_COUNT; fs_close never takes the 8-bit
\* counter below 0 (to 255).
C31_OpenCount ==
    (Mounted /\ halted = "no")
    => (/\ open_files = Cardinality(OpenFds)
        /\ open_files \in 0..FS_OPEN_MAX_COUNT)

\* ---------------------------------------------------------------- C32
\* fs_mount has returned 0 right after an fs_umount that returned 0
Remounted == call.op = "fs_mount" /\ ret = 0 /\ snap # NoSnap

\* C32: after an fs_umount that returned 0 and an fs_mount that returned 0 no
\* descriptor is open and open_files is 0, and fs_stat, fs_lseek, fs_read and
\* fs_close return -1 for a descriptor that fs_open handed out before.
C32_NoDescriptorSurvives ==
    /\ [](Remounted => (HandedOut = {} /\ OpenFds = {} /\ open_files = 0))
    /\ [][\A fd \in FdArgs :
            (/\ Remounted /\ fd \in HandedOut
             /\ \/ fs_stat(fd)
                \/ fs_close(fd)
                \/ \E offset \in SeekOffsets : fs_lseek(fd, offset)
                \/ \E count \in ReadCounts : fs_read(fd, "bytes", count))
            => (halted' = "no" /\ ret' = -1)]_vars

\* ---------------------------------------------------------------- C33
\* C33: data_block_index(offset, file_start) returns, and what it returns is
\* the block that floor(offset / BLOCK_SIZE) links from file_start lead to,
\* for every chain that ends at FAT_EOC without a cycle and every offset inside
\* the blocks of that chain.
C33_BlockAtOffset ==
    (/\ call.op = "data_block_index"
     /\ ChainEnds(fat_table, call.file_start)
     /\ call.offset < Len(ChainFrom(fat_table, call.file_start, DataBlocks + 1))
                        * BLOCK_SIZE)
    => (/\ halted = "no"
        /\ ret = ChainFrom(fat_table, call.file_start, DataBlocks + 1)
                     [(call.offset \div BLOCK_SIZE) + 1])

====
